---- MODULE Spec2Model ----
(***************************************************************************)
(* scripts/generate_jwt.py: reads an RSA private key from the path given   *)
(* as the second command-line argument, builds the claims {iat, exp, iss}  *)
(* with a 600 second lifetime, signs them with RS256 and prints            *)
(* "JWT=<token>".                                                          *)
(*                                                                         *)
(* Strings (arguments, paths) are sequences of characters.  A Python local *)
(* that is not bound yet is the empty set, a bound one the singleton of    *)
(* its value.  The clock counts ticks of 1/TicksPerSecond second, so that  *)
(* time.time() has a fractional part for int() to drop.                    *)
(***************************************************************************)
EXTENDS Integers, Sequences, FiniteSets, TLC

VARIABLES argv, fs, clock, pc, app_id, key_path, f, private_key, iat, exp,
          claims, token, stdout, stderr, raised, exitcode,
          steps, readDoneAt, clockAt, fs0, prev

vars == <<argv, fs, clock, pc, app_id, key_path, f, private_key, iat, exp,
          claims, token, stdout, stderr, raised, exitcode,
          steps, readDoneAt, clockAt, fs0, prev>>

-----------------------------------------------------------------------------
(* Bounds of the model *)

MaxArgs == 2
MaxClock == 2
TicksPerSecond == 2

(* The token lifetime of line 16 *)
Lifetime == 600

-----------------------------------------------------------------------------
(* Inputs *)

ScriptName == <<"g", "e", "n">>
Strings == {<< >>, <<"a">>, <<" ", "a", " ">>}

KeyA == "PEM RSA PRIVATE KEY A"
KeyB == "PEM RSA PRIVATE KEY B"
Contents == {KeyA, KeyB, "hello world", "PEM RSA PRIVATE KEY truncated",
             "PEM PUBLIC KEY A", "PEM ENCRYPTED PRIVATE KEY A"}

Missing == [kind |-> "missing", perm |-> FALSE, text |-> FALSE, content |-> ""]
Dir == [kind |-> "dir", perm |-> TRUE, text |-> FALSE, content |-> ""]
NoPerm == [kind |-> "file", perm |-> FALSE, text |-> TRUE, content |-> KeyA]
Binary == [kind |-> "file", perm |-> TRUE, text |-> FALSE, content |-> ""]
TextFile(c) == [kind |-> "file", perm |-> TRUE, text |-> TRUE, content |-> c]
Files == {Missing, Dir, NoPerm, Binary} \cup {TextFile(c) : c \in Contents}

FileSystems == {g \in [Strings -> Files] : g[<< >>] = Missing}
Argvs == {<<ScriptName>> \o s : s \in UNION {[1..n -> Strings] : n \in 0..MaxArgs}}

Unbound == {}
Bound(v) == {v}
Val(s) == CHOOSE v \in s : TRUE

-----------------------------------------------------------------------------
(* Pure parts of main() *)

\* sys.argv[i] with i an index off by one
GetItemOffByOne(a, i) == IF i >= 1 /\ i <= Len(a) THEN Bound(a[i]) ELSE Unbound

\* sys.argv[i]: Python indexes from 0; Unbound stands for IndexError
GetItem(a, i) == IF i + 1 <= Len(a) THEN Bound(a[i + 1]) ELSE Unbound

\* open(path, 'r') on a missing file that creates it instead of failing
OpenErrorCreating(g, path) ==
    IF path = << >> THEN "FileNotFoundError"
    ELSE IF g[path].kind = "dir" THEN "IsADirectoryError"
    ELSE IF g[path].kind = "file" /\ ~g[path].perm THEN "PermissionError"
    ELSE "ok"

\* open(path, 'r'): the exception it raises, or "ok"
OpenError(g, path) ==
    IF path = << >> \/ g[path].kind = "missing" THEN "FileNotFoundError"
    ELSE IF g[path].kind = "dir" THEN "IsADirectoryError"
    ELSE IF ~g[path].perm THEN "PermissionError"
    ELSE "ok"

\* open(path, 'w') would truncate the file
FsAfterOpenTruncating(g, path) ==
    IF g[path].kind = "file" THEN [g EXCEPT ![path].content = ""] ELSE g

\* open(path, 'r') leaves the file system as it is
FsAfterOpen(g, path) == g

\* f.read() in text mode: the exception it raises, or "ok"
ReadError(file) == IF file.text THEN "ok" ELSE "UnicodeDecodeError"

\* a handle that nothing closes
HandleLeaked(h) == h

\* leaving the with block closes the handle, on return and on exception
HandleAfterWith(h) == "closed"

\* int(time.time()): truncation toward zero
IntTrunc(t) == IF t >= 0 THEN t \div TicksPerSecond
               ELSE -((-t) \div TicksPerSecond)

\* a lifetime of one minute instead of ten
ExpiryShort(i) == i + 60

\* exp = iat + 600
Expiry(i) == i + Lifetime

RECURSIVE LStrip(_)
LStrip(s) == IF s # << >> /\ Head(s) = " " THEN LStrip(Tail(s)) ELSE s
RECURSIVE RStrip(_)
RStrip(s) == IF s # << >> /\ s[Len(s)] = " "
             THEN RStrip(SubSeq(s, 1, Len(s) - 1)) ELSE s

\* the payload with the issuer trimmed
PayloadStripped(i, e, a) == [iat |-> i, exp |-> e, iss |-> RStrip(LStrip(a))]

\* the payload with a nonce taken from the clock
PayloadWithNonce(i, e, a) == [iat |-> i, exp |-> e, iss |-> a, jti |-> clock]

\* {'iat': iat, 'exp': exp, 'iss': app_id}
Payload(i, e, a) == [iat |-> i, exp |-> e, iss |-> a]

\* a signer that takes any PEM it is given
IsSigningKeyLax(key) == key # "hello world"

\* jwt.encode(..., algorithm='RS256') signs with an unencrypted RSA private key only
IsSigningKey(key) == key \in {KeyA, KeyB}

\* the exception jwt.encode raises for a key it cannot sign with
EncodeError(key) == IF IsSigningKey(key) THEN "ok" ELSE "InvalidKeyError"

\* the compact token: header, payload and the RS256 signature over both.
\* RSASSA-PKCS1-v1_5 has no random input: the signature is a function of
\* the key and the signed segments.
Encode(payload, key) ==
    [header |-> [alg |-> "RS256", typ |-> "JWT"],
     payload |-> payload,
     signature |-> [alg |-> "RS256", key |-> key,
                    over |-> <<[alg |-> "RS256", typ |-> "JWT"], payload>>]]

\* print that writes the line twice
StdoutAfterPrintTwice(out, tok) == out \o <<<<"JWT=", tok>>, <<"JWT=", tok>>>>

\* print(f"JWT={token}")
StdoutAfterPrint(out, tok) == Append(out, <<"JWT=", tok>>)

\* control flow with the clock read before the key file is opened
SuccClockFirst(l) ==
    CASE l = "argv1" -> "argv2"
      [] l = "argv2" -> "time"
      [] l = "time" -> "open"
      [] l = "open" -> "read"
      [] l = "read" -> "exp"
      [] l = "exp" -> "encode"
      [] l = "encode" -> "print"
      [] l = "print" -> "exited"

\* the statement that follows statement l of main()
Succ(l) ==
    CASE l = "argv1" -> "argv2"
      [] l = "argv2" -> "open"
      [] l = "open" -> "read"
      [] l = "read" -> "time"
      [] l = "time" -> "exp"
      [] l = "exp" -> "encode"
      [] l = "encode" -> "print"
      [] l = "print" -> "exited"

-----------------------------------------------------------------------------
(* The process *)

ProcessStart ==
    /\ pc = "argv1"
    /\ app_id = Unbound /\ key_path = Unbound /\ f = "none"
    /\ private_key = Unbound /\ iat = Unbound /\ exp = Unbound
    /\ claims = Unbound /\ token = Unbound
    /\ stdout = << >> /\ stderr = << >>
    /\ raised = Unbound /\ exitcode = Unbound
    /\ steps = << >> /\ readDoneAt = Unbound /\ clockAt = Unbound

Init ==
    /\ argv \in Argvs
    /\ fs \in FileSystems
    /\ fs0 = fs
    /\ clock \in -1 .. 0
    /\ prev = Unbound
    /\ ProcessStart

\* an uncaught exception: traceback on the error stream, exit status 1
Raise(e) ==
    /\ pc' = "exited"
    /\ raised' = Bound(e)
    /\ stderr' = Append(stderr, e)
    /\ exitcode' = Bound(1)

NoRaise == UNCHANGED <<raised, stderr, exitcode>>

\* line 7
FetchAppId ==
    /\ pc = "argv1"
    /\ steps' = Append(steps, "argv1")
    /\ app_id' = GetItem(argv, 1)
    /\ IF GetItem(argv, 1) = Unbound
       THEN Raise("IndexError")
       ELSE pc' = Succ("argv1") /\ NoRaise
    /\ UNCHANGED <<argv, fs, clock, key_path, f, private_key, iat, exp, claims,
                   token, stdout, readDoneAt, clockAt, fs0, prev>>

\* line 8
FetchKeyPath ==
    /\ pc = "argv2"
    /\ steps' = Append(steps, "argv2")
    /\ key_path' = GetItem(argv, 2)
    /\ IF GetItem(argv, 2) = Unbound
       THEN Raise("IndexError")
       ELSE pc' = Succ("argv2") /\ NoRaise
    /\ UNCHANGED <<argv, fs, clock, app_id, f, private_key, iat, exp, claims,
                   token, stdout, readDoneAt, clockAt, fs0, prev>>

\* line 11
OpenKey ==
    /\ pc = "open"
    /\ steps' = Append(steps, "open")
    /\ LET e == OpenError(fs, Val(key_path)) IN
         IF e = "ok"
         THEN /\ f' = "open"
              /\ fs' = FsAfterOpen(fs, Val(key_path))
              /\ pc' = Succ("open")
              /\ NoRaise
         ELSE /\ Raise(e)
              /\ UNCHANGED <<f, fs>>
    /\ UNCHANGED <<argv, clock, app_id, key_path, private_key, iat, exp, claims,
                   token, stdout, readDoneAt, clockAt, fs0, prev>>

\* line 12 and the end of the with block
ReadKey ==
    /\ pc = "read"
    /\ f = "open"
    /\ steps' = Append(steps, "read")
    /\ f' = HandleAfterWith(f)
    /\ LET e == ReadError(fs[Val(key_path)]) IN
         IF e = "ok"
         THEN /\ private_key' = Bound(fs[Val(key_path)].content)
              /\ readDoneAt' = Bound(clock)
              /\ pc' = Succ("read")
              /\ NoRaise
         ELSE /\ Raise(e)
              /\ UNCHANGED <<private_key, readDoneAt>>
    /\ UNCHANGED <<argv, fs, clock, app_id, key_path, iat, exp, claims, token,
                   stdout, clockAt, fs0, prev>>

\* line 15
ReadClock ==
    /\ pc = "time"
    /\ steps' = Append(steps, "time")
    /\ clockAt' = Bound(clock)
    /\ iat' = Bound(IntTrunc(clock))
    /\ pc' = Succ("time")
    /\ NoRaise
    /\ UNCHANGED <<argv, fs, clock, app_id, key_path, f, private_key, exp,
                   claims, token, stdout, readDoneAt, fs0, prev>>

\* line 16
SetExp ==
    /\ pc = "exp"
    /\ steps' = Append(steps, "exp")
    /\ exp' = Bound(Expiry(Val(iat)))
    /\ pc' = Succ("exp")
    /\ NoRaise
    /\ UNCHANGED <<argv, fs, clock, app_id, key_path, f, private_key, iat,
                   claims, token, stdout, readDoneAt, clockAt, fs0, prev>>

\* lines 17-21
EncodeToken ==
    /\ pc = "encode"
    /\ private_key # Unbound
    /\ steps' = Append(steps, "encode")
    /\ LET p == Payload(Val(iat), Val(exp), Val(app_id))
           e == EncodeError(Val(private_key)) IN
         /\ claims' = Bound(p)
         /\ IF e = "ok"
            THEN /\ token' = Bound(Encode(p, Val(private_key)))
                 /\ pc' = Succ("encode")
                 /\ NoRaise
            ELSE /\ Raise(e)
                 /\ UNCHANGED token
    /\ UNCHANGED <<argv, fs, clock, app_id, key_path, f, private_key, iat, exp,
                   stdout, readDoneAt, clockAt, fs0, prev>>

\* line 23, then main() returns and the interpreter exits with status 0
PrintToken ==
    /\ pc = "print"
    /\ token # Unbound
    /\ steps' = Append(steps, "print")
    /\ stdout' = StdoutAfterPrint(stdout, Val(token))
    /\ pc' = Succ("print")
    /\ exitcode' = Bound(0)
    /\ UNCHANGED <<argv, fs, clock, app_id, key_path, f, private_key, iat, exp,
                   claims, token, stderr, raised, readDoneAt, clockAt, fs0, prev>>

\* time passes while the process runs
Tick ==
    /\ pc # "exited"
    /\ clock < MaxClock
    /\ clock' = clock + 1
    /\ UNCHANGED <<argv, fs, pc, app_id, key_path, f, private_key, iat, exp,
                   claims, token, stdout, stderr, raised, exitcode, steps,
                   readDoneAt, clockAt, fs0, prev>>

Step ==
    \/ FetchAppId
    \/ FetchKeyPath
    \/ OpenKey
    \/ ReadKey
    \/ ReadClock
    \/ SetExp
    \/ EncodeToken
    \/ PrintToken

Next == Step \/ Tick

Spec == Init /\ [][Next]_vars

\* the interpreter runs the statements of main() one after the other
FairSpec == Spec /\ WF_vars(Step)

-----------------------------------------------------------------------------
(* Several invocations, one after the other, on the same file system *)

\* what a finished invocation took in and gave out
RunRecord == [app_id |-> Val(app_id), key |-> Val(private_key),
              iat |-> Val(iat), claims |-> Val(claims), token |-> Val(token),
              key_path |-> Val(key_path), clockAt |-> Val(clockAt)]

\* the process is gone and a new one starts with new arguments; nothing of
\* the old process is left but the record prev may keep of it
Restart ==
    /\ pc = "exited"
    /\ argv' \in Argvs
    /\ prev' \in {prev} \cup (IF token # Unbound THEN {Bound(RunRecord)} ELSE {})
    /\ pc' = "argv1"
    /\ app_id' = Unbound /\ key_path' = Unbound /\ f' = "none"
    /\ private_key' = Unbound /\ iat' = Unbound /\ exp' = Unbound
    /\ claims' = Unbound /\ token' = Unbound
    /\ stdout' = << >> /\ stderr' = << >>
    /\ raised' = Unbound /\ exitcode' = Unbound
    /\ steps' = << >> /\ readDoneAt' = Unbound /\ clockAt' = Unbound
    /\ UNCHANGED <<fs, fs0, clock>>

\* a key at path "a", any file or none at the other path
RunsInit == Init /\ fs[<<"a">>] = TextFile(KeyA)

RunsNext == Next \/ Restart

RunsSpec == RunsInit /\ [][RunsNext]_vars

-----------------------------------------------------------------------------
(* Properties *)

Order == <<"argv1", "argv2", "open", "read", "time", "exp", "encode", "print">>
Exited == pc = "exited"
Ran(l) == \E k \in 1..Len(steps) : steps[k] = l
KeyFile == fs[argv[3]]

\* C1: whatever the clock shows when it is read, the claims given to the
\* signer have exp - iat = 600 exactly, iat being the clock value with its
\* fraction dropped (truncated toward zero)
C1_ExpiryIs600 ==
    /\ exp # Unbound => Val(exp) - Val(iat) = 600
    /\ claims # Unbound =>
         LET c == Val(claims)
             t == Val(clockAt) IN
           /\ c.exp - c.iat = 600
           /\ c.iat = Val(iat)
           /\ IF t >= 0
              THEN c.iat * TicksPerSecond <= t /\ t < (c.iat + 1) * TicksPerSecond
              ELSE (c.iat - 1) * TicksPerSecond < t /\ t <= c.iat * TicksPerSecond

\* a token was generated from a clock value with a fraction
C1_Witness ==
    /\ token # Unbound
    /\ Val(clockAt) % TicksPerSecond # 0
    /\ Val(token).payload.exp = Val(token).payload.iat + 600

\* C2: the iss claim is the first positional argument exactly as given
\* (empty, or with blanks around it), and the claims are iat, exp and iss
\* and nothing else
C2_IssuerVerbatim ==
    claims # Unbound =>
        /\ Val(claims).iss = argv[2]
        /\ DOMAIN Val(claims) = {"iat", "exp", "iss"}
        /\ token # Unbound => Val(token).payload = Val(claims)

\* a token was printed for an identifier with blanks around it
C2_Witness ==
    /\ Exited /\ stdout # << >>
    /\ argv[2] = <<" ", "a", " ">>
    /\ Val(token).payload.iss = <<" ", "a", " ">>

\* C3: a run ends either with the one line JWT=<token> on standard output
\* and status 0, or with nothing on standard output, a diagnostic on the
\* error stream and a non-zero status; nothing is printed before that, and
\* never both a printed line and a raised failure
C3_NoPartialFailure ==
    /\ Exited =>
         \/ /\ raised = Unbound /\ exitcode = Bound(0) /\ stderr = << >>
            /\ stdout = << <<"JWT=", Val(token)>> >>
         \/ /\ raised # Unbound /\ exitcode # Unbound /\ exitcode # Bound(0)
            /\ stdout = << >> /\ stderr # << >>
    /\ ~Exited => stdout = << >> /\ raised = Unbound
    /\ stdout # << >> => raised = Unbound

\* signing failed, the latest point of failure, and nothing was printed
C3_Witness ==
    /\ Exited /\ Ran("encode") /\ raised # Unbound /\ stdout = << >>

\* C4: with a key path that names no file, a file without read permission
\* or a directory, the run ends in the file access failure with no output,
\* open is attempted once, and neither the clock nor the signer is reached
C4_KeyFileCannotBeOpened ==
    (Len(argv) >= 3 /\ (KeyFile.kind # "file" \/ ~KeyFile.perm)) =>
        /\ \E n \in 0..3 : steps = SubSeq(Order, 1, n)
        /\ f = "none" /\ private_key = Unbound
        /\ clockAt = Unbound /\ iat = Unbound /\ claims = Unbound /\ token = Unbound
        /\ Exited =>
             /\ steps = <<"argv1", "argv2", "open">>
             /\ raised = Bound(IF KeyFile.kind = "missing" THEN "FileNotFoundError"
                               ELSE IF KeyFile.kind = "dir" THEN "IsADirectoryError"
                               ELSE "PermissionError")
             /\ exitcode = Bound(1) /\ stdout = << >>

\* the run ended at open for a file that does not exist
C4_Witness ==
    /\ Exited /\ Len(argv) >= 3 /\ argv[3] # << >> /\ KeyFile.kind = "missing"
    /\ raised = Bound("FileNotFoundError")

\* C5: with a readable key file whose text is no RSA private key for RS256
\* (other text, a damaged key, a public key, an encrypted key) the run ends
\* in the signing failure: jwt.encode is called once, print is never
\* reached and nothing is written to standard output
C5_InvalidKeyFailsSigning ==
    (Len(argv) >= 3 /\ KeyFile.kind = "file" /\ KeyFile.perm /\ KeyFile.text
        /\ KeyFile.content \notin {KeyA, KeyB}) =>
        /\ pc # "print" /\ ~Ran("print")
        /\ token = Unbound /\ stdout = << >>
        /\ Exited =>
             /\ steps = SubSeq(Order, 1, 7)
             /\ raised = Bound("InvalidKeyError")
             /\ exitcode = Bound(1)

\* the run ended in jwt.encode on a public key
C5_Witness ==
    /\ Exited /\ Len(argv) >= 3 /\ KeyFile = TextFile("PEM PUBLIC KEY A")
    /\ raised = Bound("InvalidKeyError")

\* C6: with no or one positional argument the run ends with a non-zero
\* status, an IndexError on the error stream and nothing on standard
\* output, before open, the clock or the signer is reached
C6_MissingArguments ==
    Len(argv) <= 2 =>
        /\ pc \in {"argv1", "argv2", "exited"}
        /\ ~Ran("open") /\ ~Ran("time") /\ ~Ran("encode")
        /\ f = "none" /\ clockAt = Unbound /\ claims = Unbound
        /\ stdout = << >>
        /\ Exited =>
             /\ raised = Bound("IndexError")
             /\ exitcode = Bound(1)
             /\ stderr # << >>

\* one positional argument: line 7 ran, line 8 raised
C6_Witness ==
    /\ Exited /\ Len(argv) = 2 /\ app_id # Unbound
    /\ raised = Bound("IndexError")

\* C7: the handle of the key file is open only while the file is read: it
\* is closed before the clock is read and signing starts, and in every
\* final state, after a failed read too
C7_HandleReleased ==
    /\ f = "open" <=> pc = "read"
    /\ pc \in {"time", "exp", "encode", "print"} => f = "closed"
    /\ Exited => f # "open"
    /\ Exited /\ Ran("read") => f = "closed"

\* the read failed and the handle is closed
C7_Witness ==
    /\ Exited /\ raised = Bound("UnicodeDecodeError") /\ f = "closed"

\* C8: two invocations with the same application identifier, the same key
\* content and the same integer timestamp give the same claims and the same
\* token, whatever else differs between them
C8_Deterministic ==
    (prev # Unbound /\ token # Unbound
        /\ Val(prev).app_id = Val(app_id)
        /\ Val(prev).key = Val(private_key)
        /\ Val(prev).iat = Val(iat)) =>
        /\ Val(prev).claims = Val(claims)
        /\ Val(prev).token = Val(token)

\* two invocations with the same inputs in the same second, at different
\* instants and with the key at another path
C8_Witness ==
    /\ prev # Unbound /\ token # Unbound
    /\ Val(prev).app_id = Val(app_id)
    /\ Val(prev).key = Val(private_key)
    /\ Val(prev).iat = Val(iat)
    /\ Val(prev).clockAt # Val(clockAt)
    /\ Val(prev).key_path # Val(key_path)

\* C9: no invocation changes the file system, whether it succeeds or
\* fails, and a new invocation starts with no key and no token of an
\* earlier one
C9_FilesystemUnchanged ==
    /\ fs = fs0
    /\ pc = "argv1" => private_key = Unbound /\ token = Unbound /\ claims = Unbound

\* a second invocation has read the key and ended
C9_Witness ==
    /\ prev # Unbound /\ Exited /\ private_key # Unbound /\ fs = fs0

LinearPass ==
    /\ \E n \in 0..Len(Order) : steps = SubSeq(Order, 1, n)
    /\ clockAt # Unbound =>
         /\ readDoneAt # Unbound /\ private_key # Unbound
         /\ Val(clockAt) >= Val(readDoneAt)
    /\ Exited =>
         /\ Cardinality(raised) <= 1 /\ Cardinality(exitcode) = 1
         /\ raised = Unbound <=> exitcode = Bound(0)
         /\ raised = Unbound <=> steps = Order
    /\ Exited /\ key_path # Unbound =>
         \/ raised = Unbound /\ steps = Order
         \/ /\ raised \subseteq {"FileNotFoundError", "IsADirectoryError",
                                 "PermissionError", "UnicodeDecodeError"}
            /\ steps[Len(steps)] \in {"open", "read"}
         \/ raised = Bound("InvalidKeyError") /\ steps[Len(steps)] = "encode"

\* C10: every invocation ends, after one pass through argument fetch, key
\* file read, clock, claims, signing and print in this order with no step
\* repeated; the clock is read only after the key was read; and past the
\* arguments there are the file access exit, the signing exit and success
C10_LinearPassTerminates == []LinearPass /\ <>Exited

\* a run that succeeded, with time passing between the read and the clock
C10_Witness ==
    /\ Exited /\ steps = Order /\ exitcode = Bound(0)
    /\ Val(clockAt) > Val(readDoneAt)

====
